---------------------------- MODULE Spec2Model ----------------------------
(***************************************************************************)
(* A model of Macro/Imrohoroglu1989.ipynb: the BusinessCycleModel          *)
(* constructor, the utility tabulator util, the Bellman operator T, the    *)
(* value-iteration driver solve_model and the stationary-distribution      *)
(* driver solve_invariant_dist with its scatter-add kernel dist_iter.      *)
(*                                                                         *)
(* Numbers.  The notebook computes in float64.  Here                       *)
(*   - money (assets, incomes) is an integer number of 1/MoneyScale units; *)
(*   - consumption is the exact rational cn / cd;                          *)
(*   - utilities and values are integers in 1/UScale units, every product  *)
(*     and quotient truncated to that resolution (the analogue of float    *)
(*     rounding), with NegInf standing for IEEE -inf;                      *)
(*   - probabilities are integer weights over the common row sum PDen(P);  *)
(*   - the distribution is the exact rational pmf[a][s] / den.             *)
(* Indices are 0-based as in the source.                                   *)
(***************************************************************************)
EXTENDS Integers, Sequences, FiniteSets, TLC

VARIABLES
    pc,         \* position of the notebook: which call is running or finished
    bcm,        \* the BusinessCycleModel instance (NoModel before construction)
    u,          \* solve_model: the utility table u[a0][s][a1]
    v,          \* solve_model: the value function v[a][s]
    policy,     \* solve_model: the local `policy` ([dtype, val])
    i,          \* solve_model: iteration counter
    error,      \* solve_model: sup-norm error of the last iteration
    tol,        \* solve_model: argument tol
    max_iter,   \* solve_model: argument max_iter
    vfi,        \* solve_model: what the call printed, raised and returned
    dist,       \* solve_invariant_dist: its frame (i, error, tol, max_iter, pmf, ...)
    tk,         \* the running parallel sweep of T: v_new, policy, writes per cell
    wk          \* the parallel workers of the running kernel: position, phase, tmp

vars == <<pc, bcm, u, v, policy, i, error, tol, max_iter, vfi, dist, tk, wk>>

---------------------------------------------------------------------------
(* Resolutions and bounds.                                                 *)

\* money units per 1.0 of the consumption good
MoneyScale == 2000
\* utility units per 1.0 of utility
UScale == 10
\* largest grid size Na that is enumerated
MaxNa == 3
\* largest iteration cap max_iter that is enumerated
MaxIterCap == 3
\* worker threads of a parallel (prange) loop
NumThreads == 2

(* Program constants.                                                      *)

\* the infeasibility sentinel -1e6 of util
SentinelReal == -1000000
\* `error = 1e3` before either loop
InitErrorReal == 1000
\* IEEE -inf: 0.0 ** (1 - sigma) / (1 - sigma) for sigma > 1
NegInf == -2000000000

Sentinel == SentinelReal * UScale
InitError == InitErrorReal * UScale

---------------------------------------------------------------------------
(* Arithmetic helpers.                                                     *)

Abs(x) == IF x < 0 THEN -x ELSE x

RECURSIVE Pow(_, _)
Pow(b, e) == IF e = 0 THEN 1 ELSE b * Pow(b, e - 1)

\* floor(x * num / den) for den > 0, computed without forming x * num
MulDiv(x, num, den) == (x \div den) * num + ((x % den) * num) \div den

\* float addition with -inf absorbing
AddF(x, y) == IF x = NegInf \/ y = NegInf THEN NegInf ELSE x + y

RECURSIVE SumTo(_, _)
\* f[0] + ... + f[n-1]
SumTo(f, n) == IF n = 0 THEN 0 ELSE SumTo(f, n - 1) + f[n - 1]

RECURSIVE MaxTo(_, _)
\* max(f[0], ..., f[n-1]) for n >= 1
MaxTo(f, n) ==
    IF n = 1 THEN f[0]
    ELSE LET m == MaxTo(f, n - 1) IN IF f[n - 1] > m THEN f[n - 1] ELSE m

Idx(n) == 0 .. (n - 1)

---------------------------------------------------------------------------
(* BusinessCycleModel.__init__                                             *)

NoModel == [Na |-> -1]

\* the two transition matrices, as integer weights over a common row sum:
\* the calibrated entries rounded to eighths (exact arithmetic on the
\* four-decimal entries leaves the integer range after two iterations)
PCycle ==
    [s \in Idx(4) |->
        CASE s = 0 -> [t \in Idx(4) |-> <<7, 0, 1, 0>>[t + 1]]
          [] s = 1 -> [t \in Idx(4) |-> <<5, 3, 0, 0>>[t + 1]]
          [] s = 2 -> [t \in Idx(4) |-> <<1, 0, 7, 0>>[t + 1]]
          [] s = 3 -> [t \in Idx(4) |-> <<1, 0, 3, 4>>[t + 1]]]

PNoCycle ==
    [s \in Idx(2) |->
        CASE s = 0 -> [t \in Idx(2) |-> <<7, 1>>[t + 1]]
          [] s = 1 -> [t \in Idx(2) |-> <<4, 4>>[t + 1]]]

\* the denominator of the weights of P: the sum of its first row
PDen(P, Ns) == SumTo(P[0], Ns)

\* np.linspace(a_min, a_max, Na)[k]
Linspace(a_min, a_max, Na, k) ==
    IF Na = 1 THEN a_min
    ELSE a_min + (k * (a_max - a_min)) \div (Na - 1)

\* the instance the constructor leaves behind; it validates nothing
NewModel(r_save, y, theta, beta, sigma, business_cycle, a_max, a_min, Na) ==
    LET Ns == IF business_cycle THEN 4 ELSE 2 IN
    [ r_save |-> r_save, y |-> y, theta |-> theta, beta |-> beta,
      sigma |-> sigma, a_max |-> a_max, a_min |-> a_min, Na |-> Na,
      P |-> IF business_cycle THEN PCycle ELSE PNoCycle,
      Ns |-> Ns,
      a_vals |-> [k \in Idx(Na) |-> Linspace(a_min, a_max, Na, k)],
      y_vals |-> [s \in Idx(Ns) |-> IF s % 2 = 0 THEN y ELSE theta] ]

\* arguments the constructor is called with: grids of 1 .. MaxNa points on
\* [0, 2], [0, 0] and the reversed [2, 0]; the default incomes (1, 0.25) and
\* incomes of one money unit; integer sigma > 1; r_save of 0 and 1
NaSet == 1 .. MaxNa
GridBounds == { <<0, 2 * MoneyScale>>, <<0, 0>>, <<2 * MoneyScale, 0>> }
IncomeSet == { <<MoneyScale, MoneyScale \div 4>>, <<1, 1>> }
SigmaSet == {2, 3}
RSaveSet == {0, 1}
BetaSet == { <<199, 200>>, <<1, 2>> }

Construct ==
    /\ pc = "start"
    /\ \E Na \in NaSet, g \in GridBounds, inc \in IncomeSet, sigma \in SigmaSet,
          r_save \in RSaveSet, beta \in BetaSet, business_cycle \in BOOLEAN :
          bcm' = NewModel(r_save, inc[1], inc[2], beta, sigma, business_cycle,
                          g[2], g[1], Na)
    /\ pc' = "constructed"
    /\ UNCHANGED <<u, v, policy, i, error, tol, max_iter, vfi, dist, tk, wk>>

---------------------------------------------------------------------------
(* operator_factory: util                                                  *)

\* c = a_vals[a0] + y_vals[s] - a_vals[a1]/(1+r), as the fraction ConsNum/ConsDen
ConsNum(m, a0, s, a1) ==
    (m.a_vals[a0] + m.y_vals[s]) * (1 + m.r_save) - m.a_vals[a1]

ConsDen(m) == MoneyScale * (1 + m.r_save)

\* c**(1-sigma) / (1-sigma) for c = cn/cd >= 0 and sigma > 1
CRRA(cn, cd, sigma) ==
    IF cn = 0 THEN NegInf
    ELSE - ((UScale * Pow(cd, sigma - 1)) \div ((sigma - 1) * Pow(cn, sigma - 1)))

\* a branch that also sends zero consumption to the sentinel
UtilCellNonPositive(m, a0, s, a1) ==
    IF ConsNum(m, a0, s, a1) <= 0
    THEN Sentinel
    ELSE CRRA(ConsNum(m, a0, s, a1), ConsDen(m), m.sigma)

\* the branch of util on the sign of c
UtilCell(m, a0, s, a1) ==
    IF ConsNum(m, a0, s, a1) < 0
    THEN Sentinel
    ELSE CRRA(ConsNum(m, a0, s, a1), ConsDen(m), m.sigma)

util(m) ==
    [a0 \in Idx(m.Na) |-> [s \in Idx(m.Ns) |-> [a1 \in Idx(m.Na) |->
        UtilCell(m, a0, s, a1)]]]

---------------------------------------------------------------------------
(* operator_factory: T                                                     *)

\* P[s] @ v[a1,:]
Expect(m, vv, s, a1) ==
    LET d == PDen(m.P, m.Ns)
        q == SumTo([t \in Idx(m.Ns) |-> m.P[s][t] * (vv[a1][t] \div d)], m.Ns)
        r == SumTo([t \in Idx(m.Ns) |-> m.P[s][t] * (vv[a1][t] % d)], m.Ns)
    IN  q + (r \div d)

\* v_vals[a1] = u0 + beta * P[s] @ v[a1,:]
Candidate(m, vv, uu, a0, s, a1) ==
    AddF(uu[a0][s][a1], MulDiv(Expect(m, vv, s, a1), m.beta[1], m.beta[2]))

VVals(m, vv, uu, a0, s) ==
    [a1 \in Idx(m.Na) |-> Candidate(m, vv, uu, a0, s, a1)]

RECURSIVE ArgMaxLast(_, _)
\* an argmax that keeps the last maximum of the scan
ArgMaxLast(f, n) ==
    IF n = 1 THEN 0
    ELSE LET k == ArgMaxLast(f, n - 1) IN IF f[n - 1] >= f[k] THEN n - 1 ELSE k

RECURSIVE ArgMax(_, _)
\* np.argmax(f[0..n-1]): a left-to-right scan that keeps the first maximum
ArgMax(f, n) ==
    IF n = 1 THEN 0
    ELSE LET k == ArgMax(f, n - 1) IN IF f[n - 1] > f[k] THEN n - 1 ELSE k

\* the result of one sweep of T: [v_new, policy]
T(m, vv, uu) ==
    [ v_new  |-> [a0 \in Idx(m.Na) |-> [s \in Idx(m.Ns) |->
                    MaxTo(VVals(m, vv, uu, a0, s), m.Na)]],
      policy |-> [a0 \in Idx(m.Na) |-> [s \in Idx(m.Ns) |->
                    ArgMax(VVals(m, vv, uu, a0, s), m.Na)]] ]

---------------------------------------------------------------------------
(* solve_model                                                             *)

Unbound == [dtype |-> "unbound", val |-> <<>>]
NoCall == [printed |-> {}, exc |-> "none", returned |-> FALSE]

\* np.max(np.abs(x - y)) over an Na x Ns array
SupNorm(m, x, y) ==
    MaxTo([k \in Idx(m.Na * m.Ns) |->
              Abs(x[k \div m.Ns][k % m.Ns] - y[k \div m.Ns][k % m.Ns])],
          m.Na * m.Ns)

\* tolerances, all below the initial error 1e3
TolSet == {0, 5, 100 * UScale}

SolveModelCall ==
    /\ pc = "constructed"
    /\ \E t \in TolSet, mi \in 0 .. MaxIterCap :
          /\ tol' = t
          /\ max_iter' = mi
    /\ u' = util(bcm)
    /\ i' = 0
    /\ error' = InitError
    /\ v' = [a \in Idx(bcm.Na) |-> [s \in Idx(bcm.Ns) |-> 0]]
    /\ policy' = Unbound
    /\ pc' = "solve_model"
    /\ UNCHANGED <<bcm, vfi, dist, tk, wk>>

\* one pass of the body of `while i < max_iter and error > tol`
SolveModelIter ==
    /\ pc = "solve_model"
    /\ i < max_iter /\ error > tol
    /\ LET r == T(bcm, v, u) IN
          /\ error' = SupNorm(bcm, v, r.v_new)
          /\ v' = r.v_new
          /\ policy' = [dtype |-> "float64", val |-> r.policy]
    /\ i' = i + 1
    /\ UNCHANGED <<pc, bcm, u, tol, max_iter, vfi, dist, tk, wk>>

\* the two prints after the loop, the cast and the return
SolveModelReturn ==
    /\ pc = "solve_model"
    /\ ~(i < max_iter /\ error > tol)
    /\ LET printed == (IF i = max_iter THEN {"Failed to converge!"} ELSE {})
                        \cup (IF i < max_iter THEN {"Converged"} ELSE {})
       IN  IF policy.dtype = "unbound"
           THEN /\ vfi' = [printed |-> printed, exc |-> "UnboundLocalError",
                           returned |-> FALSE]
                /\ UNCHANGED policy
           ELSE /\ vfi' = [printed |-> printed, exc |-> "none", returned |-> TRUE]
                /\ policy' = IF i < max_iter
                             THEN [policy EXCEPT !.dtype = "int64"]
                             ELSE policy
    /\ pc' = "solve_model_done"
    /\ UNCHANGED <<bcm, u, v, i, error, tol, max_iter, dist, tk, wk>>

---------------------------------------------------------------------------
(* solve_invariant_dist, sequential kernel                                 *)

NoDist == [i |-> 0]
NoKernel == <<>>

Zeros(m) == [a \in Idx(m.Na) |-> [s \in Idx(m.Ns) |-> 0]]

\* the k-th scatter-add of a sweep over (a0, s0, s1), in loop order
TripleA0(m, k) == k \div (m.Ns * m.Ns)
TripleS0(m, k) == (k \div m.Ns) % m.Ns
TripleS1(m, k) == k % m.Ns

\* P[s0,s1] * pmf[a0,s0], the mass the k-th scatter-add moves
Moved(m, pmf, k) == m.P[TripleS0(m, k)][TripleS1(m, k)] * pmf[TripleA0(m, k)][TripleS0(m, k)]

\* the destination row a1 = policy[a0,s0] of the k-th scatter-add
Dest(m, pol, k) == pol[TripleA0(m, k)][TripleS0(m, k)]

RECURSIVE DistFold(_, _, _, _)
\* pmf_new after the first k scatter-adds of the sequential sweep
DistFold(m, pol, pmf, k) ==
    IF k = 0 THEN Zeros(m)
    ELSE LET acc == DistFold(m, pol, pmf, k - 1) IN
         [acc EXCEPT ![Dest(m, pol, k - 1)][TripleS1(m, k - 1)] =
                         @ + Moved(m, pmf, k - 1)]

\* dist_iter(pmf) run sequentially; the result is over the denominator den * PDen
dist_iter(m, pol, pmf) == DistFold(m, pol, pmf, m.Na * m.Ns * m.Ns)

\* np.max(np.abs(pmf - pmf_new)) as a numerator over den * PDen
DistSupNorm(m, pmf, pmf_new) ==
    MaxTo([k \in Idx(m.Na * m.Ns) |->
              Abs(PDen(m.P, m.Ns) * pmf[k \div m.Ns][k % m.Ns]
                    - pmf_new[k \div m.Ns][k % m.Ns])],
          m.Na * m.Ns)

\* x > y for fractions <<num, den>>
FracGT(x, y) == x[1] * y[2] > y[1] * x[2]

\* tolerances of solve_invariant_dist, all below the initial error 1e3
DistTolSet == { <<0, 1>>, <<1, 16>>, <<1, 4>> }

\* the frame of a call solve_invariant_dist(bcm, policy, flag, tol, max_iter)
DistFrame(m, flag, t, mi) ==
    [ i |-> 0, error |-> <<InitErrorReal, 1>>, tol |-> t, max_iter |-> mi,
      parallel_flag |-> flag,
      pmf |-> [a \in Idx(m.Na) |-> [s \in Idx(m.Ns) |-> 1]],
      den |-> m.Na * m.Ns,
      pmf_new |-> <<>>,
      printed |-> {}, exc |-> "none", returned |-> FALSE ]

DistLoopCond == dist.i < dist.max_iter /\ FracGT(dist.error, dist.tol)

\* the notebook's call on the result of solve_model, with the kernel compiled
\* sequentially (parallel_flag = False)
SolveInvariantDistCall ==
    /\ pc = "solve_model_done"
    /\ vfi.returned
    /\ \E t \in DistTolSet, mi \in 0 .. MaxIterCap :
          dist' = DistFrame(bcm, FALSE, t, mi)
    /\ pc' = "solve_invariant_dist"
    /\ UNCHANGED <<bcm, u, v, policy, i, error, tol, max_iter, vfi, tk, wk>>

\* the loop body after dist_iter returned pmf_new
DistAfterSweep(pmf_new) ==
    [dist EXCEPT !.error = <<DistSupNorm(bcm, dist.pmf, pmf_new),
                             dist.den * PDen(bcm.P, bcm.Ns)>>,
                 !.i = dist.i + 1,
                 !.pmf = pmf_new,
                 !.den = dist.den * PDen(bcm.P, bcm.Ns),
                 !.pmf_new = <<>>]

\* the first call of dist_iter compiles it; a float policy cannot index pmf_new
DistIterTypingError ==
    /\ pc = "solve_invariant_dist"
    /\ DistLoopCond
    /\ policy.dtype # "int64"
    /\ dist' = [dist EXCEPT !.exc = "TypingError"]
    /\ pc' = "solve_invariant_dist_done"
    /\ UNCHANGED <<bcm, u, v, policy, i, error, tol, max_iter, vfi, tk, wk>>

\* one pass of the loop body with the sequential kernel
DistIterSeq ==
    /\ pc = "solve_invariant_dist"
    /\ DistLoopCond
    /\ policy.dtype = "int64"
    /\ ~dist.parallel_flag
    /\ dist' = DistAfterSweep(dist_iter(bcm, policy.val, dist.pmf))
    /\ UNCHANGED <<pc, bcm, u, v, policy, i, error, tol, max_iter, vfi, tk, wk>>

\* the two prints after the loop and the return
SolveInvariantDistReturn ==
    /\ pc = "solve_invariant_dist"
    /\ ~DistLoopCond
    /\ dist' = [dist EXCEPT
                  !.printed = (IF dist.i = dist.max_iter
                               THEN {"Failed to converge!"} ELSE {})
                              \cup (IF dist.i < dist.max_iter
                                    THEN {"Converged"} ELSE {}),
                  !.returned = TRUE]
    /\ pc' = "solve_invariant_dist_done"
    /\ UNCHANGED <<bcm, u, v, policy, i, error, tol, max_iter, vfi, tk, wk>>

---------------------------------------------------------------------------
(* The notebook run: construct, solve_model, solve_invariant_dist.         *)

Init ==
    /\ pc = "start"
    /\ bcm = NoModel
    /\ u = <<>>
    /\ v = <<>>
    /\ policy = Unbound
    /\ i = 0
    /\ error = InitError
    /\ tol = 0
    /\ max_iter = 0
    /\ vfi = NoCall
    /\ dist = NoDist
    /\ tk = NoKernel
    /\ wk = NoKernel

Next ==
    \/ Construct
    \/ SolveModelCall
    \/ SolveModelIter
    \/ SolveModelReturn
    \/ SolveInvariantDistCall
    \/ DistIterTypingError
    \/ DistIterSeq
    \/ SolveInvariantDistReturn

Spec == Init /\ [][Next]_vars

---------------------------------------------------------------------------
(* Parallel loops: `for a0 in prange(Na)` under @njit(parallel=True).      *)
(* The outer prange is split into NumThreads contiguous chunks, one per    *)
(* worker; the inner pranges run as plain loops inside each worker.        *)

Workers == Idx(NumThreads)

\* first a0 of worker w's chunk of range(n)
ChunkLo(w, n) == (w * n) \div NumThreads

\* number of a0 in worker w's chunk
ChunkLen(w, n) == ChunkLo(w + 1, n) - ChunkLo(w, n)

Forked == [w \in Workers |-> [pos |-> 0, phase |-> "load", tmp |-> 0]]

---------------------------------------------------------------------------
(* solve_invariant_dist, parallel kernel.  `pmf_new[a1,s1] += x` compiles  *)
(* to a load, an add and a store with no synchronisation between workers.  *)

\* number of scatter-adds of worker w, and the sweep index of its pos-th one
DistWork(w) == ChunkLen(w, bcm.Na) * bcm.Ns * bcm.Ns
DistTriple(w) == ChunkLo(w, bcm.Na) * bcm.Ns * bcm.Ns + wk[w].pos

\* dist_iter is entered: pmf_new = zeros, the workers start
DistIterFork ==
    /\ pc = "solve_invariant_dist"
    /\ DistLoopCond
    /\ policy.dtype = "int64"
    /\ dist.parallel_flag
    /\ dist' = [dist EXCEPT !.pmf_new = Zeros(bcm)]
    /\ wk' = Forked
    /\ pc' = "dist_iter"
    /\ UNCHANGED <<bcm, u, v, policy, i, error, tol, max_iter, vfi, tk>>

\* a worker reads pmf_new[a1,s1]
DistWorkerLoad(w) ==
    /\ pc = "dist_iter"
    /\ wk[w].pos < DistWork(w)
    /\ wk[w].phase = "load"
    /\ wk' = [wk EXCEPT ![w].phase = "store",
                        ![w].tmp = dist.pmf_new[Dest(bcm, policy.val, DistTriple(w))]
                                               [TripleS1(bcm, DistTriple(w))]]
    /\ UNCHANGED <<pc, bcm, u, v, policy, i, error, tol, max_iter, vfi, dist, tk>>

\* a worker writes back what it read plus P[s0,s1] * pmf[a0,s0]
DistWorkerStore(w) ==
    /\ pc = "dist_iter"
    /\ wk[w].pos < DistWork(w)
    /\ wk[w].phase = "store"
    /\ dist' = [dist EXCEPT
                  !.pmf_new[Dest(bcm, policy.val, DistTriple(w))]
                           [TripleS1(bcm, DistTriple(w))] =
                      wk[w].tmp + Moved(bcm, dist.pmf, DistTriple(w))]
    /\ wk' = [wk EXCEPT ![w].phase = "load", ![w].pos = @ + 1, ![w].tmp = 0]
    /\ UNCHANGED <<pc, bcm, u, v, policy, i, error, tol, max_iter, vfi, tk>>

DistSweepDone == \A w \in Workers : wk[w].pos = DistWork(w)

\* all workers are done: dist_iter returns and the loop body finishes
DistIterJoin ==
    /\ pc = "dist_iter"
    /\ DistSweepDone
    /\ dist' = DistAfterSweep(dist.pmf_new)
    /\ wk' = NoKernel
    /\ pc' = "solve_invariant_dist"
    /\ UNCHANGED <<bcm, u, v, policy, i, error, tol, max_iter, vfi, tk>>

\* the model a bare solve_invariant_dist run is given
DistModel(Na, business_cycle) ==
    NewModel(0, MoneyScale, MoneyScale \div 4, <<199, 200>>, 2, business_cycle,
             2 * MoneyScale, 0, Na)

\* every policy of grid indices on an Na x Ns grid
Policies(m) == [Idx(m.Na) -> [Idx(m.Ns) -> Idx(m.Na)]]

\* solve_invariant_dist called on any index policy, in either mode
InitDist ==
    /\ pc = "solve_invariant_dist"
    /\ \E Na \in 1 .. (MaxNa - 1) : bcm = DistModel(Na, FALSE)
    /\ \E pol \in Policies(bcm) : policy = [dtype |-> "int64", val |-> pol]
    /\ \E flag \in BOOLEAN, t \in DistTolSet, mi \in 0 .. (MaxIterCap - 1) :
          dist = DistFrame(bcm, flag, t, mi)
    /\ u = <<>>
    /\ v = <<>>
    /\ i = 0
    /\ error = InitError
    /\ tol = 0
    /\ max_iter = 0
    /\ vfi = NoCall
    /\ tk = NoKernel
    /\ wk = NoKernel

NextDist ==
    \/ DistIterSeq
    \/ DistIterFork
    \/ \E w \in Workers : DistWorkerLoad(w)
    \/ \E w \in Workers : DistWorkerStore(w)
    \/ DistIterJoin
    \/ SolveInvariantDistReturn

SpecDist == InitDist /\ [][NextDist]_vars

---------------------------------------------------------------------------
(* solve_model with use_parallel=True: the sweep of T split over workers.  *)
(* A worker computes one cell (a0, s) at a time: v_vals is allocated       *)
(* inside the loop body, so it is private to the cell.                     *)

\* an in-place sweep, reading the array that is being written
TSourceInPlace(vv, v_new) == v_new

\* the array the candidates of a cell are read from: `v[a1,:]`
TSource(vv, v_new) == vv

\* number of cells of worker w, and the (a0, s) of its pos-th one
TWork(w) == ChunkLen(w, bcm.Na) * bcm.Ns
TCellA0(w) == ChunkLo(w, bcm.Na) + (wk[w].pos \div bcm.Ns)
TCellS(w) == wk[w].pos % bcm.Ns

\* T is entered: v_new = zeros_like(v), policy = zeros_like(v), workers start
TFork ==
    /\ pc = "solve_model"
    /\ i < max_iter /\ error > tol
    /\ tk' = [v_new |-> Zeros(bcm), policy |-> Zeros(bcm), writes |-> Zeros(bcm)]
    /\ wk' = Forked
    /\ pc' = "T"
    /\ UNCHANGED <<bcm, u, v, policy, i, error, tol, max_iter, vfi, dist>>

\* a worker fills v_vals for its next cell and stores the max and the argmax
TWorkerCell(w) ==
    /\ pc = "T"
    /\ wk[w].pos < TWork(w)
    /\ LET a0 == TCellA0(w)
           s == TCellS(w)
           v_vals == VVals(bcm, TSource(v, tk.v_new), u, a0, s)
       IN  tk' = [tk EXCEPT !.v_new[a0][s] = MaxTo(v_vals, bcm.Na),
                            !.policy[a0][s] = ArgMax(v_vals, bcm.Na),
                            !.writes[a0][s] = @ + 1]
    /\ wk' = [wk EXCEPT ![w].pos = @ + 1]
    /\ UNCHANGED <<pc, bcm, u, v, policy, i, error, tol, max_iter, vfi, dist>>

TSweepDone == \A w \in Workers : wk[w].pos = TWork(w)

\* all workers are done: T returns and the loop body finishes
TJoin ==
    /\ pc = "T"
    /\ TSweepDone
    /\ error' = SupNorm(bcm, v, tk.v_new)
    /\ v' = tk.v_new
    /\ policy' = [dtype |-> "float64", val |-> tk.policy]
    /\ i' = i + 1
    /\ tk' = NoKernel
    /\ wk' = NoKernel
    /\ pc' = "solve_model"
    /\ UNCHANGED <<bcm, u, tol, max_iter, vfi, dist>>

\* solve_model(bcm, use_parallel=True) on a constructed model
InitT ==
    /\ pc = "constructed"
    /\ \E Na \in NaSet, inc \in IncomeSet, business_cycle \in BOOLEAN :
          bcm = NewModel(0, inc[1], inc[2], <<1, 2>>, 3, business_cycle,
                         2 * MoneyScale, 0, Na)
    /\ u = <<>>
    /\ v = <<>>
    /\ policy = Unbound
    /\ i = 0
    /\ error = InitError
    /\ tol = 0
    /\ max_iter = 0
    /\ vfi = NoCall
    /\ dist = NoDist
    /\ tk = NoKernel
    /\ wk = NoKernel

NextT ==
    \/ SolveModelCall
    \/ TFork
    \/ \E w \in Workers : TWorkerCell(w)
    \/ TJoin
    \/ SolveModelReturn

SpecT == InitT /\ [][NextT]_vars

---------------------------------------------------------------------------
(* Properties of the utility table and the Bellman operator.               *)

UBuilt == pc \in {"solve_model", "solve_model_done"}

\* C9: in the table built by util, a triple whose consumption
\* a_vals[a0] + y_vals[s] - a_vals[a1]/(1+r_save) is negative holds exactly
\* the sentinel -1e6, a triple with consumption >= 0 holds the CRRA value
\* c^(1-sigma)/(1-sigma), and with r_save = 0 every triple with
\* a_vals[a0] + y_vals[s] < a_vals[a1] holds the sentinel.
C9_UtilTableSentinel ==
    UBuilt =>
        \A a0 \in Idx(bcm.Na), s \in Idx(bcm.Ns), a1 \in Idx(bcm.Na) :
            LET have == (bcm.a_vals[a0] + bcm.y_vals[s]) * (1 + bcm.r_save)
                cost == bcm.a_vals[a1]
            IN  /\ have < cost => u[a0][s][a1] = Sentinel
                /\ have >= cost =>
                      u[a0][s][a1] = CRRA(have - cost, ConsDen(bcm), bcm.sigma)
                /\ (bcm.r_save = 0 /\ bcm.a_vals[a0] + bcm.y_vals[s] < bcm.a_vals[a1])
                      => u[a0][s][a1] = Sentinel

\* a table with an infeasible triple, a triple of zero consumption and a
\* triple of positive consumption, at r_save = 0
C9_Witness ==
    /\ UBuilt
    /\ bcm.r_save = 0
    /\ \E a0 \in Idx(bcm.Na), s \in Idx(bcm.Ns) :
          /\ \E a1 \in Idx(bcm.Na) :
                /\ bcm.a_vals[a0] + bcm.y_vals[s] < bcm.a_vals[a1]
                /\ u[a0][s][a1] = Sentinel
          /\ \E a1 \in Idx(bcm.Na) :
                /\ bcm.a_vals[a0] + bcm.y_vals[s] = bcm.a_vals[a1]
                /\ u[a0][s][a1] = NegInf
          /\ \E a1 \in Idx(bcm.Na) :
                /\ bcm.a_vals[a0] + bcm.y_vals[s] > bcm.a_vals[a1]
                /\ u[a0][s][a1] \notin {Sentinel, NegInf}

\* C6: one application of T to (v, u) yields, for every cell (a0, s),
\* v_new[a0,s] = the maximum over all a1 of u[a0,s,a1] + beta * sum_s' P[s,s'] * v[a1,s']
\* and policy[a0,s] = the lowest a1 attaining that maximum.
C6_BellmanMaxArgmax ==
    [][ (pc = "solve_model" /\ i' = i + 1) =>
          \A a0 \in Idx(bcm.Na), s \in Idx(bcm.Ns) :
             LET cand == VVals(bcm, v, u, a0, s)
                 best == policy'.val[a0][s]
             IN  /\ \A a1 \in Idx(bcm.Na) : cand[a1] <= v'[a0][s]
                 /\ best \in Idx(bcm.Na)
                 /\ cand[best] = v'[a0][s]
                 /\ \A a1 \in Idx(bcm.Na) : a1 < best => cand[a1] < v'[a0][s]
      ]_vars

\* after the first application of T (to v = 0), a cell whose maximum is
\* attained by two different a1
C6_Witness ==
    /\ pc = "solve_model"
    /\ i = 1
    /\ \E a0 \in Idx(bcm.Na), s \in Idx(bcm.Ns) :
          \E a1 \in Idx(bcm.Na), a2 \in Idx(bcm.Na) :
             /\ a1 # a2
             /\ u[a0][s][a1] = v[a0][s]
             /\ u[a0][s][a2] = v[a0][s]
             /\ policy.val[a0][s] = IF a1 < a2 THEN a1 ELSE a2

\* C7: at every iteration the policy's choice is feasible (its utility is
\* not the sentinel) whenever a feasible choice exists.
C7_PolicyFeasible ==
    policy.dtype # "unbound" =>
        \A a0 \in Idx(bcm.Na), s \in Idx(bcm.Ns) :
            (\E a1 \in Idx(bcm.Na) : u[a0][s][a1] # Sentinel)
                => u[a0][s][policy.val[a0][s]] # Sentinel

---------------------------------------------------------------------------
(* Properties of the value-iteration driver and of construction.           *)

InvalidConfig(m) == m.Na < 2 \/ m.a_max <= m.a_min

\* C5: constructing the model with Na < 2 or a_max <= a_min fails with a
\* ConfigurationError, and no solver step is taken on such a configuration.
C5_InvalidConfigRejected ==
    (bcm # NoModel /\ InvalidConfig(bcm)) =>
        (pc = "ConfigurationError" /\ i = 0)

\* C4: when solve_model reaches max_iter without error <= tol it does not
\* crash and returns v with a policy of grid indices, as on the converged path.
C4_UnconvergedResultUsable ==
    (pc = "solve_model_done" /\ i = max_iter /\ error > tol) =>
        /\ vfi.exc = "none"
        /\ vfi.returned
        /\ policy.dtype = "int64"

\* C3: solve_model and solve_invariant_dist report CONVERGED exactly when the
\* loop stopped with error <= tol and MAX_ITER_EXCEEDED ("Failed to
\* converge!") exactly when i reached max_iter with error still > tol, so a
\* run whose error drops to <= tol on the max_iter-th iteration is reported
\* as converged; exactly one of the two is reported.
C3_OutcomeMatchesError ==
    /\ pc = "solve_model_done" =>
          vfi.printed = IF error <= tol THEN {"Converged"}
                        ELSE {"Failed to converge!"}
    /\ (pc = "solve_invariant_dist_done" /\ dist.returned) =>
          dist.printed = IF ~FracGT(dist.error, dist.tol) THEN {"Converged"}
                         ELSE {"Failed to converge!"}

\* C10: both drivers terminate: the iteration counter never exceeds max_iter
\* and every run that has left RUNNING has left it for exactly one of
\* CONVERGED and MAX_ITER_EXCEEDED.
C10_DriversTerminateReported ==
    /\ i <= max_iter
    /\ pc \in {"solve_invariant_dist", "solve_invariant_dist_done"} =>
          dist.i <= dist.max_iter
    /\ pc = "solve_model_done" =>
          vfi.printed \in {{"Converged"}, {"Failed to converge!"}}
    /\ pc = "solve_invariant_dist_done" =>
          dist.printed \in {{"Converged"}, {"Failed to converge!"}}

---------------------------------------------------------------------------
(* Properties of the parallel kernels.                                     *)

\* C8: under every scheduling of the parallel workers, one sweep of T writes
\* each cell of v_new / policy exactly once and, when the workers are done,
\* v_new and policy equal the result of the sequential sweep.
C8_ParallelEqualsSequential ==
    pc = "T" =>
        /\ \A a0 \in Idx(bcm.Na), s \in Idx(bcm.Ns) : tk.writes[a0][s] <= 1
        /\ TSweepDone =>
              /\ \A a0 \in Idx(bcm.Na), s \in Idx(bcm.Ns) : tk.writes[a0][s] = 1
              /\ tk.v_new = T(bcm, v, u).v_new
              /\ tk.policy = T(bcm, v, u).policy

\* a second sweep, on a non-zero v, finished by two workers that both had cells
C8_Witness ==
    /\ pc = "T"
    /\ i = 1
    /\ TSweepDone
    /\ \A w \in Workers : TWork(w) > 0
    /\ \E a \in Idx(bcm.Na), s \in Idx(bcm.Ns) : v[a][s] # 0

SumAll(m, x) == SumTo([k \in Idx(m.Na * m.Ns) |-> x[k \div m.Ns][k % m.Ns]], m.Na * m.Ns)

\* C2: when the parallel workers of dist_iter are done, pmf_new equals the
\* result of the sequential sweep: no read-add-write into pmf_new[a1,s1] is lost.
C2_NoLostUpdate ==
    (pc = "dist_iter" /\ DistSweepDone) =>
        dist.pmf_new = dist_iter(bcm, policy.val, dist.pmf)

\* C1: the distribution starts uniform, 1/(Na*Ns) per cell, and after every
\* application of dist_iter, parallel or sequential, its total mass is 1.
C1_MassConserved ==
    pc \in {"solve_invariant_dist", "solve_invariant_dist_done"} =>
        /\ dist.i = 0 =>
              \A a \in Idx(bcm.Na), s \in Idx(bcm.Ns) :
                  dist.pmf[a][s] * bcm.Na * bcm.Ns = dist.den
        /\ SumAll(bcm, dist.pmf) = dist.den

=============================================================================
